---- MODULE Spec2Model ----
(***************************************************************************)
(* A model of bin/applevision_visualizer.py: the node's start-up (main),   *)
(* the two subscriber callbacks (CamVizHandler.callback and                *)
(* KalmanVizHandler.callback), the marker geometry of make_cam_fov_marker  *)
(* and the HeaderCalc sequence counter.                                    *)
(*                                                                         *)
(* Numbers.  The script computes in IEEE doubles.  A double of ordinary     *)
(* magnitude is the exact rational <<n, d>> in lowest terms with d > 0,    *)
(* and the operations are carried out in the order the script applies      *)
(* them.  The angle 2*atan(r) is kept symbolically, so that tan(angle/2)   *)
(* is r.  A number too large for that is <<n, d, e>>, (n/d) * 10^e: such   *)
(* numbers are only copied and squared.  A double at the bottom of the     *)
(* range is <<k, 1, 0, -1074>>, k * 2^-1074 with k # 0: every product of   *)
(* such a number is rounded to a multiple of 2^-1074 as the hardware       *)
(* rounds it, to the nearest one and on a tie to the even one.  The two    *)
(* zeros of the doubles, which compare equal, are both <<0, 1>>.           *)
(* TLC's integers are 32 bits wide, so the unsigned 32-bit sequence        *)
(* counter is kept as two 16-bit limbs <<hi, lo>>.                         *)
(***************************************************************************)
EXTENDS Integers, Sequences, FiniteSets, TLC

VARIABLES
    mainPc,         \* where main() stands
    serviceUp,      \* whether the Tf2Transform service is reachable (environment)
    subscribed,     \* the topics main() has subscribed: subset of {"cam", "kal"}
    frame,          \* frame[h]: the latest invocation of handler h's callback
    dist_to_apple,  \* dist_to_apple[s]: the local variable of that name, per callback
    tf_answer,      \* history: what the service answered frame[h]'s query
    identities,     \* history: the (ns, id) of every marker published so far
    header_seq,     \* HeaderCalc._seq, as two 16-bit limbs
    header_calls,   \* history: the number of get_header calls so far, as limbs
    header_last     \* the Header the last get_header call returned

vars == <<mainPc, serviceUp, subscribed, frame, dist_to_apple, tf_answer,
          identities, header_seq, header_calls, header_last>>

----------------------------------------------------------------------------
(* Bounds of the model *)

\* the clock reads 0..MaxClock
MaxClock == 1

\* get_header is followed for HeaderWindow calls on each side of the wrap
HeaderWindow == 60

----------------------------------------------------------------------------
(* Exact rational arithmetic *)

Abs(n) == IF n < 0 THEN -n ELSE n

RECURSIVE GCD(_, _)
GCD(a, b) == IF b = 0 THEN a ELSE GCD(b, a % b)

\* the rational n/d in lowest terms, the sign carried by the numerator
RatNorm(n, d) ==
    LET g == GCD(Abs(n), Abs(d))
        s == IF d < 0 THEN -1 ELSE 1
    IN  <<(s * n) \div g, Abs(d) \div g>>

Rat(n) == <<n, 1>>

RatAdd(a, b) == RatNorm(a[1] * b[2] + b[1] * a[2], a[2] * b[2])

RatSub(a, b) == RatNorm(a[1] * b[2] - b[1] * a[2], a[2] * b[2])

\* -a, for a number of any of the three forms
RatNeg(a) == [a EXCEPT ![1] = -a[1]]

\* cross-reduced before multiplying, which keeps the products small
RatMul(a, b) ==
    LET p == RatNorm(a[1], b[2])
        q == RatNorm(b[1], a[2])
    IN  RatNorm(p[1] * q[1], p[2] * q[2])

RatDiv(a, b) == RatMul(a, RatNorm(b[2], b[1]))

----------------------------------------------------------------------------
(* Doubles at the bottom of the range *)

\* the double k * 2^-1074
Tiny(k) == IF k = 0 THEN Rat(0) ELSE <<k, 1, 0, -1074>>

IsTiny(v) == Len(v) = 4

\* the number of binary digits of i >= 0
RECURSIVE BitLen(_)
BitLen(i) == IF i = 0 THEN 0 ELSE 1 + BitLen(i \div 2)

\* the number of binary digits 0 between the point and the first digit 1 of
\* r/d, 0 < r < d
RECURSIVE ZeroBits(_, _)
ZeroBits(r, d) == IF 2 * r >= d THEN 0 ELSE 1 + ZeroBits(2 * r, d)

\* 2^e modulo d, by squaring; d * d is below 2^31
RECURSIVE Pow2Mod(_, _)
Pow2Mod(e, d) ==
    IF e = 0 THEN 1 % d
    ELSE LET h == Pow2Mod(e \div 2, d)
         IN  IF e % 2 = 0 THEN (h * h) % d ELSE (((h * h) % d) * 2) % d

\* How the double nearest the rational q = <<n, d>> lies against q, in
\* magnitude: -1 nearer zero, 0 on it, 1 farther from zero.  The double keeps
\* the first 53 binary digits of q, and is rounded on what follows them: f/d,
\* which is never a half for n below 2^31.  d * d is below 2^31.
DblSide(q) ==
    LET n    == Abs(q[1])
        d    == q[2]
        i    == n \div d
        r    == n % d
        bits == IF i > 0 THEN 53 - BitLen(i) ELSE 53 + ZeroBits(r, d)
        f    == (r * Pow2Mod(bits, d)) % d
    IN  IF f = 0 THEN 0 ELSE IF 2 * f > d THEN 1 ELSE -1

\* The double k * 2^-1074 times the double that stands for the rational b and
\* lies on the side of it that side tells: the product is rounded to the
\* nearest multiple of 2^-1074.  Where k * b is half way between two of them,
\* the product of the doubles is so only if the double is b itself, and goes
\* to the even multiple; otherwise it is a shade off the middle, on the side
\* the double lies on, and goes there.
\* |k| times the numerator of b is below 2^31.
TinyMul(k, b, side) ==
    LET s  == IF (k < 0) = (b[1] < 0) THEN 1 ELSE -1
        g  == GCD(Abs(k), b[2])
        d  == b[2] \div g
        p  == (Abs(k) \div g) * Abs(b[1])
        q  == p \div d
        r  == p % d
        up == \/ 2 * r > d
              \/ 2 * r = d /\ (side = 1 \/ (side = 0 /\ q % 2 = 1))
    IN  Tiny(s * (IF up THEN q + 1 ELSE q))

\* the multiple of 2^-1074 that v is, for v = Tiny(k)
Units(v) == v[1]

\* the double k * 2^-1074 times the double nearest the rational b
TinyTimes(k, b) == TinyMul(k, b, DblSide(b))

----------------------------------------------------------------------------
(* Messages *)

Point(x, y, z) == [x |-> x, y |-> y, z |-> z]

\* the detections of 'applevision/apple_camera': x, y, w, h in pixels
Detections ==
    { [x |-> Rat(0),   y |-> Rat(0),   w |-> Rat(640), h |-> Rat(360)],
      [x |-> Rat(320), y |-> Rat(180), w |-> Rat(0),   h |-> Rat(0)],
      [x |-> Rat(100), y |-> Rat(45),  w |-> Rat(200), h |-> Rat(120)] }

\* the estimates of 'applevision/est_apple_pos': a point
Estimates ==
    { [point |-> Point(Rat(0), Rat(0), Rat(1))],
      [point |-> Point(<<3, 10>>, <<-1, 4>>, Rat(2))] }

\* the double 1e200
Huge == <<1, 1, 200>>

\* the translations the Tf2Transform service answers the camera handler's
\* query with, the transform of 'fake_apple': of it the handler reads z alone
FakeAppleTranslations ==
    { Point(Rat(0), Rat(0), Rat(1)),
      Point(<<-3, 10>>, <<2, 5>>, Rat(-2)),
      Point(Rat(0), Rat(0), Rat(0)),
      Point(Rat(0), Rat(0), Tiny(4)),
      Point(Rat(0), Rat(0), Tiny(17)) }

\* the translations it answers the estimate handler's query with, the
\* transform of 'apple'
AppleTranslations ==
    { Point(<<1, 10>>, <<-1, 5>>, <<1, 2>>),
      Point(<<-3, 10>>, <<2, 5>>, Rat(-2)),
      Point(Rat(0), Rat(0), Rat(0)),
      Point(Huge, Rat(0), Rat(0)),
      Point(Rat(0), Rat(0), Tiny(4)) }

\* a Tf2Transform response: response.transform.transform.translation
Response(t) == [transform |-> [transform |-> [translation |-> t]]]

\* the value of a local variable that has not been assigned
Unassigned == Response(Point(Rat(-1), Rat(-1), Rat(-1)))

\* The errors a rospy ServiceProxy call raises, each with the classes it is an
\* instance of.  ROSInterruptException derives from both ROSException and
\* KeyboardInterrupt.
ErrorBases ==
    [ ServiceException |->
        {"ServiceException", "Exception", "BaseException"},
      ROSSerializationException |->
        {"ROSSerializationException", "ROSException", "Exception",
         "BaseException"},
      ROSInterruptException |->
        {"ROSInterruptException", "ROSException", "KeyboardInterrupt",
         "Exception", "BaseException"} ]

ErrorTypes == DOMAIN ErrorBases

IsInstance(e, class) == class \in ErrorBases[e]

----------------------------------------------------------------------------
(* CamVizHandler: the camera constants and make_cam_fov_marker *)

CAMERA_RES == <<Rat(640), Rat(360)>>

CAMERA_SENSOR ==
    << RatMul(RatMul(Rat(5449), RatDiv(Rat(640), Rat(672))), <<1, 1000000>>),
       RatMul(RatMul(Rat(3072), RatDiv(Rat(360), Rat(380))), <<1, 1000000>>) >>

CAMERA_FOCAL == <<11, 1000>>

\* the angle 2*atan(r), kept by the tangent of its half
TwoAtan(r) == [tan_half |-> r]

\* tan(angle/2)
TanHalf(angle) == angle.tan_half

CAM_FOV_ACROSS == TwoAtan(RatDiv(CAMERA_SENSOR[1], RatMul(Rat(2), CAMERA_FOCAL)))

CAM_FOV_UPDOWN == TwoAtan(RatDiv(CAMERA_SENSOR[2], RatMul(Rat(2), CAMERA_FOCAL)))

\* How the double math.tan(angle/2) lies against the tangent: atan, the
\* doubling, the halving and tan leave the nearest double for the angle up and
\* down, and the double next to it towards zero for the angle across.
TanHalfSide(angle) ==
    IF angle = CAM_FOV_ACROSS THEN -1 ELSE DblSide(TanHalf(angle))

\* z_extrap*math.tan(angle/2): rounded where z_extrap is at the bottom of the
\* range of the doubles
ExtentAt(z_extrap, angle) ==
    IF IsTiny(z_extrap)
    THEN TinyMul(Units(z_extrap), TanHalf(angle), TanHalfSide(angle))
    ELSE RatMul(z_extrap, TanHalf(angle))

X_AT_Z_EXTRAP(z_extrap) == ExtentAt(z_extrap, CAM_FOV_ACROSS)

Y_AT_Z_EXTRAP(z_extrap) == ExtentAt(z_extrap, CAM_FOV_UPDOWN)

\* the points of the cone whose far corners are pp, np, nn and pn
ConeLines(pp, np, nn, pn) ==
    LET O == Point(Rat(0), Rat(0), Rat(0))
    IN  << O, pp, O, np, O, nn, O, pn,
           pp, np, np, nn, nn, pn, pn, pp >>

\* the far corners (+-X, +-Y) at the depth z_extrap
FarCorners(X, Y, z_extrap) ==
    ConeLines(Point(X, Y, z_extrap), Point(RatNeg(X), Y, z_extrap),
              Point(RatNeg(X), RatNeg(Y), z_extrap), Point(X, RatNeg(Y), z_extrap))

\* cam_mark.points: the four edges of the cone, then the box at its end
ConePoints(z_extrap) ==
    FarCorners(X_AT_Z_EXTRAP(z_extrap), Y_AT_Z_EXTRAP(z_extrap), z_extrap)

\* the marker of the camera's field of view
cam_mark(z_extrap, stamp) ==
    [ frame_id |-> "fake_grabber", stamp |-> stamp,
      ns |-> "applevision_cam_fov", id |-> 0,
      type |-> "LINE_LIST", action |-> "ADD",
      scale_x |-> <<1, 100>>, orientation_w |-> Rat(1), position_z |-> Rat(0),
      color |-> [r |-> Rat(1), g |-> Rat(0), b |-> Rat(0), a |-> <<1, 2>>],
      points |-> ConePoints(z_extrap) ]

top_left_mutant(cam_msg) == <<cam_msg.x, cam_msg.y>>

\* top_left = (cam_msg.x - CAMERA_RES[0]/2, cam_msg.y - CAMERA_RES[1]/2)
top_left(cam_msg) ==
    << RatSub(cam_msg.x, RatDiv(CAMERA_RES[1], Rat(2))),
       RatSub(cam_msg.y, RatDiv(CAMERA_RES[2], Rat(2))) >>

\* bottom_right = top_left + (cam_msg.w, cam_msg.h)
bottom_right(cam_msg) ==
    << RatAdd(top_left(cam_msg)[1], cam_msg.w),
       RatAdd(top_left(cam_msg)[2], cam_msg.h) >>

\* px/res*extent, where z_extrap and with it extent (which is zero or Tiny(k))
\* are at the bottom of the range: the quotient is a double of ordinary
\* magnitude, and the product is rounded
TinyScaled(px, res, extent) == TinyTimes(Units(extent), RatDiv(px, res))

to_metres_mutant(px, z_extrap) ==
    IF IsTiny(z_extrap)
    THEN << TinyScaled(px[1], CAMERA_RES[1], X_AT_Z_EXTRAP(z_extrap)),
            TinyScaled(px[2], CAMERA_RES[2], Y_AT_Z_EXTRAP(z_extrap)) >>
    ELSE << RatMul(RatDiv(px[1], CAMERA_RES[1]), X_AT_Z_EXTRAP(z_extrap)),
            RatMul(RatDiv(px[2], CAMERA_RES[2]), Y_AT_Z_EXTRAP(z_extrap)) >>

\* px/CAMERA_RES*(X_AT_Z_EXTRAP, Y_AT_Z_EXTRAP)*2, element by element: three
\* operations from left to right.  Where z_extrap is at the bottom of the range
\* the product of the quotient and the extent is rounded; the doubling is exact.
to_metres(px, z_extrap) ==
    IF IsTiny(z_extrap)
    THEN << TinyMul(Units(TinyScaled(px[1], CAMERA_RES[1], X_AT_Z_EXTRAP(z_extrap))),
                    Rat(2), 0),
            TinyMul(Units(TinyScaled(px[2], CAMERA_RES[2], Y_AT_Z_EXTRAP(z_extrap))),
                    Rat(2), 0) >>
    ELSE << RatMul(RatMul(RatDiv(px[1], CAMERA_RES[1]), X_AT_Z_EXTRAP(z_extrap)),
                   Rat(2)),
            RatMul(RatMul(RatDiv(px[2], CAMERA_RES[2]), Y_AT_Z_EXTRAP(z_extrap)),
                   Rat(2)) >>

top_left_m(z_extrap, cam_msg) == to_metres(top_left(cam_msg), z_extrap)

bottom_right_m(z_extrap, cam_msg) == to_metres(bottom_right(cam_msg), z_extrap)

\* box_mark.points: the outline of the detection, in the box's own frame
BoxLines(a, b, c, d) == << a, b, b, c, c, d, d, a >>

\* the outline of the rectangle from tl to br
Outline(tl, br) ==
    BoxLines(Point(tl[1], tl[2], Rat(0)), Point(br[1], tl[2], Rat(0)),
             Point(br[1], br[2], Rat(0)), Point(tl[1], br[2], Rat(0)))

BoxPoints(z_extrap, cam_msg) ==
    Outline(top_left_m(z_extrap, cam_msg), bottom_right_m(z_extrap, cam_msg))

box_mark_mutant(z_extrap, cam_msg, stamp) ==
    [ frame_id |-> "fake_grabber_cam", stamp |-> stamp,
      ns |-> "applevision_cam_fov", id |-> 0,
      type |-> "LINE_LIST", action |-> "ADD",
      scale_x |-> <<1, 200>>, orientation_w |-> Rat(1), position_z |-> z_extrap,
      color |-> [r |-> Rat(0), g |-> Rat(1), b |-> Rat(0), a |-> <<1, 2>>],
      points |-> BoxPoints(z_extrap, cam_msg) ]

\* the marker of the detection's bounding box
box_mark(z_extrap, cam_msg, stamp) ==
    [ frame_id |-> "fake_grabber_cam", stamp |-> stamp,
      ns |-> "applevision_cam_box", id |-> 0,
      type |-> "LINE_LIST", action |-> "ADD",
      scale_x |-> <<1, 200>>, orientation_w |-> Rat(1), position_z |-> z_extrap,
      color |-> [r |-> Rat(0), g |-> Rat(1), b |-> Rat(0), a |-> <<1, 2>>],
      points |-> BoxPoints(z_extrap, cam_msg) ]

\* return [box_mark, cam_mark]
make_cam_fov_marker(box, cone) == <<box, cone>>

----------------------------------------------------------------------------
(* KalmanVizHandler: the arrow marker *)

\* The least magnitude whose square is no double: 2^512 - 2^458, half way
\* between the doubles 2^512 - 2^459 and 2^512, digit by digit.  A number of
\* this magnitude or more is the double 2^512 or a larger one, and the square
\* of that is beyond the largest double, 2^1024 - 2^971.
SquareLimitDigits ==
    << 1, 3, 4, 0, 7, 8, 0, 7, 9, 2, 9, 9, 4, 2, 5, 9, 6, 3, 5, 5, 2, 9, 1, 1, 7,
       1, 3, 1, 9, 5, 0, 4, 3, 9, 0, 2, 0, 4, 9, 7, 1, 7, 8, 6, 5, 4, 3, 2, 7, 5,
       7, 5, 0, 1, 9, 9, 5, 9, 4, 8, 0, 8, 0, 9, 9, 9, 0, 8, 0, 7, 0, 3, 0, 1, 8,
       2, 7, 5, 8, 3, 0, 1, 5, 8, 2, 7, 2, 4, 3, 2, 7, 0, 0, 4, 7, 4, 2, 9, 9, 4,
       1, 6, 7, 0, 3, 9, 5, 9, 2, 7, 2, 9, 2, 5, 9, 4, 9, 1, 6, 6, 3, 2, 9, 3, 1,
       7, 5, 7, 9, 9, 5, 3, 8, 0, 3, 6, 6, 0, 0, 7, 0, 0, 1, 5, 8, 1, 3, 0, 4, 6,
       7, 6, 3, 5, 2 >>

\* the decimal digits of the integer i >= 0
RECURSIVE IntDigits(_)
IntDigits(i) == IF i < 10 THEN <<i>> ELSE Append(IntDigits(i \div 10), i % 10)

\* the digits ds[i..], against the digits of the limit at the same places:
\* -1 below, 0 equal, 1 above
RECURSIVE CmpDigits(_, _)
CmpDigits(ds, i) ==
    IF i > Len(ds) THEN 0
    ELSE IF ds[i] > SquareLimitDigits[i] THEN 1
    ELSE IF ds[i] < SquareLimitDigits[i] THEN -1
    ELSE CmpDigits(ds, i + 1)

\* the digits of r/d after the point (r < d), against the digits of the limit
\* from place i on
RECURSIVE CmpFrac(_, _, _)
CmpFrac(r, d, i) ==
    IF i > Len(SquareLimitDigits) THEN (IF r = 0 THEN 0 ELSE 1)
    ELSE LET digit == (r * 10) \div d
         IN  IF digit > SquareLimitDigits[i] THEN 1
             ELSE IF digit < SquareLimitDigits[i] THEN -1
             ELSE CmpFrac((r * 10) % d, d, i + 1)

\* the number of zeros that follow the point in r/d, 0 < r < d
RECURSIVE LeadingZeros(_, _)
LeadingZeros(r, d) == IF r * 10 >= d THEN 0 ELSE 1 + LeadingZeros(r * 10, d)

RECURSIVE Pow10(_)
Pow10(k) == IF k = 0 THEN 1 ELSE 10 * Pow10(k - 1)

\* |v| against the limit, for v = <<n, d>> or <<n, d, e>>, (n/d) * 10^e, with
\* 0 < d <= 10^8, or v at the bottom of the range: -1 below, 0 equal, 1 above
CmpSquareLimit(v) ==
    LET n    == Abs(v[1])
        d    == v[2]
        e    == IF Len(v) = 3 THEN v[3] ELSE 0
        top  == Len(SquareLimitDigits) - 1
    IN  IF n = 0 \/ IsTiny(v) THEN -1
        ELSE IF n >= d
        THEN LET ds == IntDigits(n \div d)
                 E  == e + Len(ds) - 1
             IN  IF E > top THEN 1
                 ELSE IF E < top THEN -1
                 ELSE IF CmpDigits(ds, 1) # 0 THEN CmpDigits(ds, 1)
                 ELSE CmpFrac(n % d, d, Len(ds) + 1)
        ELSE LET z == LeadingZeros(n, d)
                 E == e - z - 1
             IN  IF E > top THEN 1
                 ELSE IF E < top THEN -1
                 ELSE CmpFrac(n * Pow10(z), d, 1)

\* v**2 raises OverflowError: the square of the double nearest v is no double
\* (a square too small for a double is 0.0, and nothing is raised)
PowOverflows(v) == CmpSquareLimit(v) >= 0

\* mag = math.sqrt(x**2 + y**2 + z**2) raises
MagRaises(translation) ==
    PowOverflows(translation.x) \/ PowOverflows(translation.y)
        \/ PowOverflows(translation.z)

\* arrow_mark.points = [Point(0, 0, 0), trans.transform.translation]
ArrowPoints(res, translation) ==
    << Point(Rat(0), Rat(0), Rat(0)), translation >>

\* the marker of the arrow from the grabber to the estimated apple
arrow_mark(res, translation, stamp) ==
    [ frame_id |-> "fake_grabber", stamp |-> stamp,
      ns |-> "applevision_arrow", id |-> 0,
      type |-> "LINE_LIST", action |-> "ADD",
      scale_x |-> <<1, 200>>, orientation_w |-> Rat(1), position_z |-> Rat(0),
      color |-> [r |-> Rat(0), g |-> Rat(1), b |-> Rat(0), a |-> <<1, 2>>],
      points |-> ArrowPoints(res, translation) ]

----------------------------------------------------------------------------
(* HeaderCalc *)

\* a limb holds 16 bits: the number <<hi, lo>> is hi * LimbBase + lo
LimbBase == 65536

\* 4294967295
UINT32_MAX == <<LimbBase - 1, LimbBase - 1>>

BigZero == <<0, 0>>

BigInc(n) == IF n[2] = LimbBase - 1 THEN <<n[1] + 1, 0>> ELSE <<n[1], n[2] + 1>>

BigDec(n) == IF n[2] = 0 THEN <<n[1] - 1, LimbBase - 1>> ELSE <<n[1], n[2] - 1>>

BigGE(a, b) == a[1] > b[1] \/ (a[1] = b[1] /\ a[2] >= b[2])

next_seq_mutant(seq) ==
    IF BigGE(seq, BigInc(UINT32_MAX)) THEN BigZero ELSE BigInc(seq)

\* if self._seq >= 4294967295: self._seq = 0  else: self._seq += 1
next_seq(seq) ==
    IF BigGE(seq, UINT32_MAX) THEN BigZero ELSE BigInc(seq)

\* Header(seq=self._seq, stamp=now, frame_id=self.frame_id)
Header(seq, stamp, frame_id) == [seq |-> seq, stamp |-> stamp, frame_id |-> frame_id]

NoHeader == Header(BigZero, 0, "")

\* rospy.get_rostime() / rospy.Time.now(): any reading, whatever the last one was
\* (simulated time restarts, a wall clock is set back)
ClockReadings == 0..MaxClock

\* HeaderCalc.get_header, called on the HeaderCalc('fake_grabber') instance
get_header ==
    /\ header_calls[2] # HeaderWindow
    /\ \E t \in ClockReadings :
        header_last' = Header(header_seq, t, "fake_grabber")
    /\ header_seq' = next_seq(header_seq)
    /\ header_calls' = BigInc(header_calls)
    /\ UNCHANGED <<mainPc, serviceUp, subscribed, frame, dist_to_apple,
                   tf_answer, identities>>

----------------------------------------------------------------------------
(* The environment: the Tf2Transform service *)

ServiceComesUp ==
    /\ ~serviceUp
    /\ serviceUp' = TRUE
    /\ UNCHANGED <<mainPc, subscribed, frame, dist_to_apple, tf_answer,
                   identities, header_seq, header_calls, header_last>>

ServiceGoesDown ==
    /\ serviceUp
    /\ serviceUp' = FALSE
    /\ UNCHANGED <<mainPc, subscribed, frame, dist_to_apple, tf_answer,
                   identities, header_seq, header_calls, header_last>>

----------------------------------------------------------------------------
(* main *)

Handlers == {"cam", "kal"}

wait_for_service_mutant(up) == TRUE

\* rospy.wait_for_service('Tf2Transform') returns once the service is reachable
wait_for_service(up) == up

\* rospy.init_node('applevision_vizualizer')
InitNode ==
    /\ mainPc = "init_node"
    /\ mainPc' = "wait_for_service"
    /\ UNCHANGED <<serviceUp, subscribed, frame, dist_to_apple, tf_answer,
                   identities, header_seq, header_calls, header_last>>

WaitForService ==
    /\ mainPc = "wait_for_service"
    /\ wait_for_service(serviceUp)
    /\ mainPc' = "CamVizHandler"
    /\ UNCHANGED <<serviceUp, subscribed, frame, dist_to_apple, tf_answer,
                   identities, header_seq, header_calls, header_last>>

\* main_proc = CamVizHandler(): its HeaderCalc starts at 0
MakeCamVizHandler ==
    /\ mainPc = "CamVizHandler"
    /\ mainPc' = "subscribe_camera"
    /\ header_seq' = BigZero
    /\ UNCHANGED <<serviceUp, subscribed, frame, dist_to_apple, tf_answer,
                   identities, header_calls, header_last>>

SubscribeCamera ==
    /\ mainPc = "subscribe_camera"
    /\ mainPc' = "KalmanVizHandler"
    /\ subscribed' = subscribed \cup {"cam"}
    /\ UNCHANGED <<serviceUp, frame, dist_to_apple, tf_answer, identities,
                   header_seq, header_calls, header_last>>

MakeKalmanVizHandler ==
    /\ mainPc = "KalmanVizHandler"
    /\ mainPc' = "subscribe_kalman"
    /\ UNCHANGED <<serviceUp, subscribed, frame, dist_to_apple, tf_answer,
                   identities, header_seq, header_calls, header_last>>

\* the second subscription, after which main() stays in rospy.spin()
SubscribeKalman ==
    /\ mainPc = "subscribe_kalman"
    /\ mainPc' = "spin"
    /\ subscribed' = subscribed \cup {"kal"}
    /\ UNCHANGED <<serviceUp, frame, dist_to_apple, tf_answer, identities,
                   header_seq, header_calls, header_last>>

----------------------------------------------------------------------------
(* What the two callbacks share *)

\* Of an invocation: where it stands, its argument, what it has done so far
\* (trace), the error that ended it, and the markers it built, is to publish
\* (markers) and has published (out).
IdleFrame ==
    [pc |-> "idle", arg |-> [none |-> TRUE], trace |-> <<>>, error |-> "none",
     z_extrap |-> Rat(0), built |-> <<>>, markers |-> <<>>, out |-> <<>>]

\* an invocation is over when its callback has returned or raised
Finished == {"idle", "returned", "raised"}

DistSlot_mutant(h) == "cam"

\* dist_to_apple is a local variable: each callback has its own
DistSlot(h) == h

NoQuery == [status |-> "none", response |-> Unassigned, error |-> "none"]

\* the subscriber of handler h's topic calls h's callback with msg
Deliver(h, msg) ==
    /\ h \in subscribed
    /\ frame[h].pc \in Finished
    /\ frame' = [frame EXCEPT ![h] = [IdleFrame EXCEPT !.pc = "tf_get", !.arg = msg]]
    /\ dist_to_apple' = [dist_to_apple EXCEPT ![DistSlot(h)] = Unassigned]
    /\ tf_answer' = [tf_answer EXCEPT ![h] = NoQuery]
    /\ UNCHANGED <<mainPc, serviceUp, subscribed, identities, header_seq,
                   header_calls, header_last>>

\* self.tf_get(...) sends the request and blocks
TfCall(h) ==
    /\ frame[h].pc = "tf_get"
    /\ frame' = [frame EXCEPT ![h].pc = "tf_wait",
                              ![h].trace = Append(@, "tf_call")]
    /\ tf_answer' = [tf_answer EXCEPT ![h].status = "pending"]
    /\ UNCHANGED <<mainPc, serviceUp, subscribed, dist_to_apple, identities,
                   header_seq, header_calls, header_last>>

\* the service answers: dist_to_apple = <the response>
TfReturn(h, t, pc) ==
    /\ frame[h].pc = "tf_wait"
    /\ serviceUp
    /\ frame' = [frame EXCEPT ![h].pc = pc,
                              ![h].trace = Append(@, "tf_return")]
    /\ dist_to_apple' = [dist_to_apple EXCEPT ![DistSlot(h)] = Response(t)]
    /\ tf_answer' = [tf_answer EXCEPT ![h] =
                    [status |-> "ok", response |-> Response(t), error |-> "none"]]
    /\ UNCHANGED <<mainPc, serviceUp, subscribed, identities, header_seq,
                   header_calls, header_last>>

\* the call raises e, and the callback goes where its handling of e leads
TfRaise(h, e, pc) ==
    /\ frame[h].pc = "tf_wait"
    /\ frame' = [frame EXCEPT ![h].pc = pc, ![h].error = e,
                              ![h].trace = Append(@, "tf_raise")]
    /\ tf_answer' = [tf_answer EXCEPT ![h] =
                    [status |-> "error", response |-> Unassigned, error |-> e]]
    /\ UNCHANGED <<mainPc, serviceUp, subscribed, dist_to_apple, identities,
                   header_seq, header_calls, header_last>>

\* self.p_out.publish(marker), for the next marker of frame[h].markers
Publish(h) ==
    /\ frame[h].pc = "publish"
    /\ LET marker == Head(frame[h].markers)
       IN  /\ identities' = identities \cup {<<marker.ns, marker.id>>}
           /\ frame' = [frame EXCEPT ![h].markers = Tail(@),
                                     ![h].out = Append(@, marker),
                                     ![h].trace = Append(@, "publish"),
                                     ![h].pc = IF Tail(frame[h].markers) = <<>>
                                               THEN "returned" ELSE "publish"]
    /\ UNCHANGED <<mainPc, serviceUp, subscribed, dist_to_apple, tf_answer,
                   header_seq, header_calls, header_last>>

----------------------------------------------------------------------------
(* CamVizHandler.callback *)

CamOnError_mutant(e) == IF IsInstance(e, "Exception") THEN "returned" ELSE "raised"

\* the call is in no try statement: whatever it raises leaves the callback
CamOnError(e) == "raised"

CamDeliver == \E cam \in Detections : Deliver("cam", cam)

CamTfCall == TfCall("cam")

CamTfReturn == \E t \in FakeAppleTranslations : TfReturn("cam", t, "cam_mark")

CamTfRaise == \E e \in ErrorTypes : TfRaise("cam", e, CamOnError(e))

\* make_cam_fov_marker(dist_to_apple.transform.transform.translation.z, cam),
\* up to cam_mark
CamMakeCamMark ==
    /\ frame["cam"].pc = "cam_mark"
    /\ \E t \in ClockReadings :
        LET z == dist_to_apple[DistSlot("cam")].transform.transform.translation.z
        IN  frame' = [frame EXCEPT !["cam"].pc = "box_mark",
                                   !["cam"].z_extrap = z,
                                   !["cam"].built = <<cam_mark(z, t)>>]
    /\ UNCHANGED <<mainPc, serviceUp, subscribed, dist_to_apple, tf_answer,
                   identities, header_seq, header_calls, header_last>>

\* make_cam_fov_marker from box_mark to its return
CamMakeBoxMark ==
    /\ frame["cam"].pc = "box_mark"
    /\ \E t \in ClockReadings :
        LET box     == box_mark(frame["cam"].z_extrap, frame["cam"].arg, t)
            markers == make_cam_fov_marker(box, frame["cam"].built[1])
        IN  frame' = [frame EXCEPT !["cam"].markers = markers,
                                   !["cam"].built = <<>>,
                                   !["cam"].pc = IF markers = <<>>
                                                 THEN "returned" ELSE "publish"]
    /\ UNCHANGED <<mainPc, serviceUp, subscribed, dist_to_apple, tf_answer,
                   identities, header_seq, header_calls, header_last>>

CamPublish == Publish("cam")

----------------------------------------------------------------------------
(* KalmanVizHandler.callback *)

KalOnError_mutant(e) ==
    IF IsInstance(e, "ServiceException") THEN "returned" ELSE "raised"

KalOnError_retry(e) == "tf_get"

\* try: ... except Exception: return
KalOnError(e) == IF IsInstance(e, "Exception") THEN "returned" ELSE "raised"

KalDeliver == \E res \in Estimates : Deliver("kal", res)

KalTfCall == TfCall("kal")

KalTfReturn == \E t \in AppleTranslations : TfReturn("kal", t, "arrow_mark")

KalTfRaise == \E e \in ErrorTypes : TfRaise("kal", e, KalOnError(e))

\* trans = dist_to_apple.transform and mag, which is outside the try: an
\* OverflowError of a square leaves the callback.  Then arrow_mark.
KalMakeArrowMark ==
    /\ frame["kal"].pc = "arrow_mark"
    /\ LET trans == dist_to_apple[DistSlot("kal")].transform
       IN  IF MagRaises(trans.transform.translation)
           THEN frame' = [frame EXCEPT !["kal"].pc = "raised",
                                       !["kal"].error = "OverflowError"]
           ELSE \E t \in ClockReadings :
                frame' = [frame EXCEPT
                        !["kal"].pc = "publish",
                        !["kal"].markers =
                            <<arrow_mark(frame["kal"].arg,
                                         trans.transform.translation, t)>>]
    /\ UNCHANGED <<mainPc, serviceUp, subscribed, dist_to_apple, tf_answer,
                   identities, header_seq, header_calls, header_last>>

KalPublish == Publish("kal")

----------------------------------------------------------------------------
(* The specifications *)

Init ==
    /\ mainPc = "init_node"
    /\ serviceUp \in BOOLEAN
    /\ subscribed = {}
    /\ frame = [h \in Handlers |-> IdleFrame]
    /\ dist_to_apple = [h \in Handlers |-> Unassigned]
    /\ tf_answer = [h \in Handlers |-> NoQuery]
    /\ identities = {}
    /\ header_seq = BigZero
    /\ header_calls = BigZero
    /\ header_last = NoHeader

Next ==
    \/ InitNode
    \/ WaitForService
    \/ MakeCamVizHandler
    \/ SubscribeCamera
    \/ MakeKalmanVizHandler
    \/ SubscribeKalman
    \/ ServiceComesUp
    \/ ServiceGoesDown
    \/ CamDeliver
    \/ CamTfCall
    \/ CamTfReturn
    \/ CamTfRaise
    \/ CamMakeCamMark
    \/ CamMakeBoxMark
    \/ CamPublish
    \/ KalDeliver
    \/ KalTfCall
    \/ KalTfReturn
    \/ KalTfRaise
    \/ KalMakeArrowMark
    \/ KalPublish

\* the node as main() runs it: nothing calls get_header
Spec == Init /\ [][Next]_vars

\* A HeaderCalc('fake_grabber') whose get_header is called again and again.  Its
\* 2^32 calls are followed from the start and from HeaderWindow calls before the
\* wrap: a counter that many calls from 0 stands at that number (the else branch).
InitHeader ==
    /\ mainPc = "spin"
    /\ serviceUp = TRUE
    /\ subscribed = {}
    /\ frame = [h \in Handlers |-> IdleFrame]
    /\ dist_to_apple = [h \in Handlers |-> Unassigned]
    /\ tf_answer = [h \in Handlers |-> NoQuery]
    /\ identities = {}
    /\ header_calls \in {BigZero} \cup
            { <<LimbBase - 1, lo>> : lo \in (LimbBase - 1 - HeaderWindow)..(LimbBase - 1) }
    /\ header_seq = header_calls
    /\ header_last = IF header_calls = BigZero THEN NoHeader
                     ELSE Header(BigDec(header_calls), 0, "fake_grabber")

NextHeader == get_header

SpecHeader == InitHeader /\ [][NextHeader]_vars

----------------------------------------------------------------------------
(* The properties *)

\* how many times ev stands in trace
Count(trace, ev) == Cardinality({i \in DOMAIN trace : trace[i] = ev})

FullFrame == [x |-> Rat(0), y |-> Rat(0), w |-> Rat(640), h |-> Rat(360)]

CentrePoint == [x |-> Rat(320), y |-> Rat(180), w |-> Rat(0), h |-> Rat(0)]

\* the translation the service answered handler h's query with
Answered(h) == tf_answer[h].response.transform.transform.translation

\* the (x, y) of the points i of a marker, i in a set of indices
CornersXY(marker, idx) == {<<marker.points[i].x, marker.points[i].y>> : i \in idx}

\* C1: an invocation of CamVizHandler.callback whose transform query succeeded
\* makes exactly two publish calls, the bounding box and then the cone; one
\* whose query failed has raised the query's error and made no publish call.
C1_CamPublishesTwoOrRaises ==
    LET f == frame["cam"]
    IN  /\ f.pc = "returned" =>
            /\ tf_answer["cam"].status = "ok"
            /\ Count(f.trace, "publish") = 2
            /\ Len(f.out) = 2
            /\ f.out[1].ns = "applevision_cam_box"
            /\ f.out[2].ns = "applevision_cam_fov"
        /\ tf_answer["cam"].status = "ok" => f.pc # "raised"
        /\ tf_answer["cam"].status = "error" =>
            /\ f.pc = "raised"
            /\ f.error = tf_answer["cam"].error
            /\ Count(f.trace, "publish") = 0
            /\ f.out = <<>>

C1_Witness ==
    /\ frame["cam"].pc = "returned"
    /\ Len(frame["cam"].out) = 2
    /\ frame["kal"].pc = "returned"
    /\ tf_answer["kal"].status = "error"

\* C2: an invocation of KalmanVizHandler.callback whose transform query failed,
\* with whatever error, has returned normally (nothing is raised out of it) and
\* has made no publish call.
C2_KalSwallowsFailure ==
    LET f == frame["kal"]
    IN  tf_answer["kal"].status = "error" =>
            /\ f.pc = "returned"
            /\ Count(f.trace, "publish") = 0
            /\ f.out = <<>>
            /\ f.markers = <<>>

C2_Witness ==
    /\ frame["kal"].pc = "returned"
    /\ tf_answer["kal"].status = "error"
    /\ tf_answer["kal"].error = "ROSInterruptException"
    /\ frame["kal"].trace = <<"tf_call", "tf_raise">>

\* C3: the HeaderCalc counter stays within 0..4294967295 and equals the number
\* of get_header calls modulo 2^32, so it is 0 again after exactly 4294967296
\* calls; each call returns the value the counter had before the call.
C3_HeaderSeqWraps ==
    /\ BigGE(UINT32_MAX, header_seq)
    /\ header_seq = <<header_calls[1] % LimbBase, header_calls[2]>>
    /\ header_calls = <<LimbBase, 0>> => header_seq = BigZero
    /\ header_calls # BigZero =>
            LET before == BigDec(header_calls)
            IN  /\ header_last.seq = <<before[1] % LimbBase, before[2]>>
                /\ header_last.frame_id = "fake_grabber"

C3_Witness ==
    /\ header_calls = <<LimbBase, 0>>
    /\ header_seq = BigZero
    /\ header_last.seq = UINT32_MAX

\* the double v has a half that is a double: v / 2 * 2 is v
HalvesExactly(v) == ~IsTiny(v) \/ v[1] % 2 = 0

\* C4, as stated: for the detection that is the full frame and any distance D,
\* the corners of the published bounding box are the far corners (+-X, +-Y)
\* of the published cone, and the box is placed at the depth of those corners.
C4_FullFrameBoxIsFarPlane ==
    LET f == frame["cam"]
    IN  (f.arg = FullFrame /\ Len(f.out) = 2) =>
            LET box  == f.out[1]
                cone == f.out[2]
            IN  /\ CornersXY(box, 1..8) = CornersXY(cone, 9..16)
                /\ \A i \in 1..8 : box.points[i].z = Rat(0)
                /\ \A i \in 9..16 : cone.points[i].z = box.position_z
                /\ box.position_z = Answered("cam").z
                /\ box.points[1] = Point(cone.points[6].x, cone.points[6].y, Rat(0))
                /\ box.points[4] = Point(cone.points[2].x, cone.points[2].y, Rat(0))

\* C4, amended: for the detection that is the full frame and any distance D,
\* the box is placed at the depth D of the cone's far corners (+-X, +-Y); its
\* corners are those far corners when the halves of X and of Y are doubles,
\* and along an axis whose half-extent has no double for its half (an odd
\* multiple of 2^-1074) the box's corners are not the cone's.
C4_FullFrameBoxIsFarPlaneWhenHalved ==
    LET f == frame["cam"]
    IN  (f.arg = FullFrame /\ Len(f.out) = 2) =>
            LET box  == f.out[1]
                cone == f.out[2]
                D    == Answered("cam").z
                X    == X_AT_Z_EXTRAP(D)
                Y    == Y_AT_Z_EXTRAP(D)
            IN  /\ \A i \in 1..8 : box.points[i].z = Rat(0)
                /\ \A i \in 9..16 : cone.points[i].z = box.position_z
                /\ box.position_z = D
                /\ cone.points[2] = Point(X, Y, D)
                /\ cone.points[6] = Point(RatNeg(X), RatNeg(Y), D)
                /\ (HalvesExactly(X) /\ HalvesExactly(Y)) =>
                        /\ CornersXY(box, 1..8) = CornersXY(cone, 9..16)
                        /\ box.points[1] = Point(RatNeg(X), RatNeg(Y), Rat(0))
                        /\ box.points[4] = Point(X, Y, Rat(0))
                /\ HalvesExactly(X) =>
                        {box.points[i].x : i \in 1..8} = {X, RatNeg(X)}
                /\ HalvesExactly(Y) =>
                        {box.points[i].y : i \in 1..8} = {Y, RatNeg(Y)}
                /\ ~HalvesExactly(X) =>
                        {box.points[i].x : i \in 1..8} \cap {X, RatNeg(X)} = {}
                /\ ~HalvesExactly(Y) =>
                        {box.points[i].y : i \in 1..8} \cap {Y, RatNeg(Y)} = {}

C4_Witness ==
    /\ frame["cam"].arg = FullFrame
    /\ Len(frame["cam"].out) = 2
    /\ Answered("cam").z = Rat(-2)
    /\ Cardinality(CornersXY(frame["cam"].out[1], 1..8)) = 4
    /\ CornersXY(frame["cam"].out[1], 1..8) = CornersXY(frame["cam"].out[2], 9..16)

\* C5: for the detection {x: 320, y: 180, w: 0, h: 0} at the distance 1, every
\* one of the eight end points of the published bounding box is (0, 0).
C5_CentrePointBoxIsDegenerate ==
    LET f == frame["cam"]
    IN  (f.arg = CentrePoint /\ Answered("cam").z = Rat(1) /\ Len(f.out) >= 1) =>
            /\ Len(f.out[1].points) = 8
            /\ \A i \in 1..8 : f.out[1].points[i] = Point(Rat(0), Rat(0), Rat(0))

C5_Witness ==
    /\ frame["cam"].arg = CentrePoint
    /\ Answered("cam").z = Rat(1)
    /\ Len(frame["cam"].out) = 2
    /\ frame["cam"].out[1].ns = "applevision_cam_box"

\* C6: nothing is subscribed, no callback runs and nothing is queried or
\* published before wait_for_service has returned; and while main() waits with
\* the service unreachable it goes on waiting and subscribes nothing.
C6_SubscribeAfterService ==
    /\ [](mainPc \in {"init_node", "wait_for_service"} =>
            /\ subscribed = {}
            /\ \A h \in Handlers : frame[h].pc = "idle" /\ tf_answer[h].status = "none"
            /\ identities = {})
    /\ [][(mainPc = "wait_for_service" /\ ~serviceUp) =>
            (mainPc' = "wait_for_service" /\ subscribed' = {})]_vars

C6_Witness ==
    /\ mainPc = "spin"
    /\ subscribed = Handlers
    /\ ~serviceUp
    /\ identities # {}

ThreeIdentities ==
    { <<"applevision_cam_fov", 0>>, <<"applevision_cam_box", 0>>,
      <<"applevision_arrow", 0>> }

\* both handlers have published all they publish
AllPublished == Len(frame["cam"].out) = 2 /\ Len(frame["kal"].out) = 1

\* C7, as stated: four distinct identities are published
C7_FourIdentities ==
    AllPublished => Cardinality(identities) = 4

\* C7, amended: the identities published are three, the cone's, the box's and
\* the arrow's, each with id 0 and a namespace of its own.
C7_ThreeIdentities ==
    /\ identities \subseteq ThreeIdentities
    /\ \A a \in identities : a[2] = 0
    /\ \A a, b \in identities : a[1] = b[1] => a = b
    /\ AllPublished => Cardinality(identities) = 3

C7_Witness ==
    /\ AllPublished
    /\ identities = ThreeIdentities

\* C8: an invocation of KalmanVizHandler.callback whose transform query succeeded
\* makes, by the time it is over, exactly one publish call, of a marker in frame
\* 'fake_grabber' with two points, the origin and the translation the query
\* returned, whatever the estimate message holds.
C8_ArrowFromOriginToTranslation ==
    LET f == frame["kal"]
    IN  /\ (f.pc \in {"returned", "raised"} /\ tf_answer["kal"].status = "ok") =>
                /\ Count(f.trace, "publish") = 1
                /\ Len(f.out) = 1
        /\ \A i \in DOMAIN f.out :
                /\ i = 1
                /\ tf_answer["kal"].status = "ok"
                /\ f.out[i].frame_id = "fake_grabber"
                /\ f.out[i].points = <<Point(Rat(0), Rat(0), Rat(0)), Answered("kal")>>
                /\ \A res \in Estimates :
                        f.out[i] = arrow_mark(res, Answered("kal"), f.out[i].stamp)

\* what an invocation of handler h does when its query succeeds
SuccessTrace(h) ==
    IF h = "cam" THEN <<"tf_call", "tf_return", "publish", "publish">>
    ELSE <<"tf_call", "tf_return", "publish">>

IsPrefix(s, t) == Len(s) <= Len(t) /\ \A i \in DOMAIN s : s[i] = t[i]

\* C9: an invocation of either callback queries the transform service once, and
\* publishes only after that query has returned: what it does is a prefix of
\* query, answer, publishes or of query, failure, and it is over only after its
\* one query.
C9_OneQueryBeforePublish ==
    \A h \in Handlers :
        LET f == frame[h]
        IN  /\ \/ IsPrefix(f.trace, SuccessTrace(h))
               \/ IsPrefix(f.trace, <<"tf_call", "tf_raise">>)
            /\ Count(f.trace, "tf_call") <= 1
            /\ f.pc \in {"returned", "raised"} => Count(f.trace, "tf_call") = 1
            /\ f.pc = "returned" =>
                    f.trace \in {SuccessTrace(h), <<"tf_call", "tf_raise">>}
            /\ Count(f.trace, "publish") = Len(f.out)

C9_Witness ==
    /\ frame["cam"].trace = SuccessTrace("cam")
    /\ frame["kal"].trace = <<"tf_call", "tf_raise">>
    /\ frame["kal"].pc = "returned"

\* C10: whatever the interleaving of the two callbacks, the markers an
\* invocation has published and is about to publish are those its own message,
\* the answer to its own query and its own readings of the clock give, and no
\* callback touches the HeaderCalc counter.
C10_InvocationsIndependent ==
    /\ header_seq = BigZero
    /\ header_calls = BigZero
    /\ LET f   == frame["cam"]
           all == f.out \o f.markers
       IN  all # <<>> =>
            /\ tf_answer["cam"].status = "ok"
            /\ Len(all) = 2
            /\ all[1] = box_mark(Answered("cam").z, f.arg, all[1].stamp)
            /\ all[2] = cam_mark(Answered("cam").z, all[2].stamp)
    /\ LET f   == frame["kal"]
           all == f.out \o f.markers
       IN  all # <<>> =>
            /\ tf_answer["kal"].status = "ok"
            /\ Len(all) = 1
            /\ all[1] = arrow_mark(f.arg, Answered("kal"), all[1].stamp)

C10_Witness ==
    /\ frame["cam"].pc = "publish"
    /\ Len(frame["cam"].out) = 1
    /\ frame["kal"].pc = "publish"
    /\ Answered("cam") # Answered("kal")
    /\ frame["kal"].markers[1].stamp < frame["cam"].out[1].stamp

====
